---- MODULE Spec2Model ----
(***************************************************************************)
(* StemTube mixer: the multi-stem playback engine.                         *)
(*                                                                         *)
(* Spec            the precise engine (AudioEngine, Web Audio graph): the   *)
(*                 transport, the render loop, the seek restart timer, the  *)
(*                 audio clock and the "ended" notifications.               *)
(* SpecScratch     the precise engine under the timeline's scratch gesture. *)
(* SpecMix         the precise engine under the track controls.             *)
(* SpecCompat      the compat engine (MobileAudioEngine, media elements).   *)
(* SpecAudibility  the solo/mute rule of the two engines, applied to every  *)
(*                 combination of flags.                                    *)
(*                                                                         *)
(* Time is counted in whole units of the audio clock.  A source object is  *)
(* a record.  A source that no stem references any more is kept in orphans *)
(* while it is audible and in events while its "ended" notification is     *)
(* queued; it is garbage afterwards.  The notifications are tasks of one   *)
(* task source: they are delivered in the order the sources ended.  A      *)
(* source without an "ended" handler has nothing to notify: only the       *)
(* notifications that find a handler are queued.                           *)
(***************************************************************************)
EXTENDS Integers, Sequences, FiniteSets, TLC

\* ---------------------------------------------------------------- bounds
MaxClock == 2          \* the audio clock is observed up to this value
MaxVolume == 1         \* volume slider positions 0..MaxVolume (0% .. 100%)
MaxInFlight == 3       \* queued notifications, pending timers and unreferenced
                       \* audible sources, together

\* Object.entries order of mixer.stems (insertion order of loadStems)
StemOrder == <<"vocals", "drums">>
Stems == {StemOrder[i] : i \in 1..Len(StemOrder)}
\* buffer.duration of each decoded stem
Duration == [n \in Stems |-> IF n = "vocals" THEN 2 ELSE 1]
Volumes == 0..MaxVolume

Min(a, b) == IF a < b THEN a ELSE b
Max(a, b) == IF a > b THEN a ELSE b

VARIABLES
    stems,            \* mixer.stems: name -> stem record
    orphans,          \* audible sources no stem references
    events,           \* queued "ended" notifications, oldest first
    isPlaying,        \* mixer.isPlaying
    currentTime,      \* mixer.currentTime
    maxDuration,      \* mixer.maxDuration
    startTime,        \* audioEngine.startTime
    clock,            \* audioContext.currentTime
    animationFrameId, \* TRUE: a render-loop callback is scheduled
    frames,           \* the number of render-loop callbacks that are scheduled
    isScratchMode,    \* audioEngine.isScratchMode
    isDragging,       \* timeline.isDragging
    seekTimers,       \* targets of the pending seek restarts, oldest first
    scratchTimers,    \* stems of the pending burst stop timers, oldest first
    audioElements,    \* mobileAudioEngine.audioElements: name -> element record
    isIOS,            \* the platform test of updateStemAudio
    isInitialized,    \* mixer.isInitialized
    loads,            \* name -> how far loadStem(name) has come
    decoded,          \* name -> the audio the stem's file holds
    waveformData,     \* name -> stem.waveformData
    lastOp            \* the operation that returned last (observer)

vars == <<stems, orphans, events, isPlaying, currentTime, maxDuration, startTime,
          clock, animationFrameId, frames, isScratchMode, isDragging, seekTimers,
          scratchTimers, audioElements, isIOS, isInitialized, loads, decoded,
          waveformData, lastOp>>

\* ------------------------------------------------------------ source objects
NoSource == [stem |-> "none", state |-> "none", onended |-> FALSE,
             offset |-> 0, starts |-> 0, tornBy |-> "none", burst |-> FALSE,
             endAt |-> 0]

\* a source object that has played before
usedBufferSource(name) ==
    [stem |-> name, state |-> "stopped", onended |-> FALSE,
     offset |-> 0, starts |-> 1, tornBy |-> "none", burst |-> FALSE,
     endAt |-> 0]

\* audioContext.createBufferSource()
createBufferSource(name) ==
    [stem |-> name, state |-> "created", onended |-> FALSE,
     offset |-> 0, starts |-> 0, tornBy |-> "none", burst |-> FALSE,
     endAt |-> 0]

\* source.start(0, offset [, duration]): the source plays from offset to the
\* end of its buffer (a burst: at most one unit); a start at the end of the
\* buffer ends at once.  A source that was started before cannot be started
\* again: start throws, and the callers swallow it.
sourceStart(src, offset, burst, now) ==
    LET left == Duration[src.stem] - offset
        len  == IF burst THEN Min(1, left) ELSE left
    IN  IF src.state # "created"
        THEN [src EXCEPT !.starts = @ + 1]
        ELSE IF left <= 0
        THEN [src EXCEPT !.starts = @ + 1, !.offset = offset, !.burst = burst,
                         !.state = "ended"]
        ELSE [src EXCEPT !.starts = @ + 1, !.offset = offset, !.burst = burst,
                         !.state = "started", !.endAt = now + len]

\* the source is heard
live(src) == src.state = "started"

\* source.stop()
sourceStop(src) == IF live(src) THEN [src EXCEPT !.state = "stopped", !.endAt = 0] ELSE src

\* the audio thread: a playing source whose end is reached has ended
sourceAt(src, now) ==
    IF live(src) /\ src.endAt <= now
    THEN [src EXCEPT !.state = "ended", !.endAt = 0]
    ELSE src

hasSource(stem) == stem.source # NoSource

\* ------------------------------------------------------------ the graph
\* the element of a set of one: in {F(h) : h \in {v}} the value of v is
\* worked out once, however often F refers to it
the(S) == CHOOSE r \in S : TRUE

\* g = [stems, orphans, events].  An entry of events names the source that
\* ended: the one stem `stem` holds (held), or a source that lost its
\* reference (src).
heldEvent(name) == [held |-> TRUE, stem |-> name, src |-> NoSource]
lostEvent(src) == [held |-> FALSE, stem |-> src.stem, src |-> src]

\* what is kept of a source nothing references: not where it played
lost(src) == [src EXCEPT !.offset = 0, !.burst = IF live(src) THEN @ ELSE FALSE]

\* the queued notification of the source stem `name` held follows the source
RECURSIVE requeue(_, _, _)
requeue(q, name, src) ==
    IF q = <<>> THEN <<>>
    ELSE IF Head(q) # heldEvent(name) THEN <<Head(q)>> \o requeue(Tail(q), name, src)
    ELSE IF src.onended THEN <<lostEvent(lost(src))>> \o requeue(Tail(q), name, src)
    ELSE requeue(Tail(q), name, src)

\* stem `name` gives up src, the present state of the source it held:
\* an audible source stays audible, a queued notification stays queued
\* while the source has its handler
release(g, name, src) ==
    [stems   |-> [g.stems EXCEPT ![name].source = NoSource],
     orphans |-> IF live(src) THEN Append(g.orphans, lost(src)) ELSE g.orphans,
     events  |-> requeue(g.events, name, src)]

\* the source stem `name` holds stops or ends: its notification is queued
queueHeld(g, name) == [g EXCEPT !.events = Append(@, heldEvent(name))]

\* onended = null; try { source.stop() } catch {}; stem.source = null
teardownStem(g, name, disable, by) ==
    LET s  == g.stems[name]
        a  == IF disable THEN [s.source EXCEPT !.onended = FALSE] ELSE s.source
        b  == [sourceStop(a) EXCEPT !.tornBy = by]
        g1 == IF live(s.source) THEN queueHeld(g, name) ELSE g
    IN  IF ~hasSource(s) THEN g ELSE release(g1, name, b)

RECURSIVE teardownFrom(_, _, _, _)
teardownFrom(g, i, disable, by) ==
    IF i > Len(StemOrder) THEN g
    ELSE the({teardownFrom(h, i + 1, disable, by) :
                 h \in {teardownStem(g, StemOrder[i], disable, by)}})

\* the teardown loop of each operation
playTeardown(g)        == teardownFrom(g, 1, TRUE, "play")
pauseTeardownKeepingHandler(g) == teardownFrom(g, 1, FALSE, "pause")
pauseTeardown(g)       == teardownFrom(g, 1, TRUE, "pause")
stopTeardown(g)        == teardownFrom(g, 1, FALSE, "stop")
seekTeardown(g)        == teardownFrom(g, 1, TRUE, "seek")
scratchTeardown(g)     == teardownFrom(g, 1, TRUE, "scratch")
scratchModeTeardownKeepingHandler(g) == teardownFrom(g, 1, FALSE, "scratchBegin")
scratchModeTeardown(g) == teardownFrom(g, 1, TRUE, "scratchBegin")

\* AudioEngine.setupAudioNodes: a new source, gain node and "ended" handler
setupAudioNodes(g, name) ==
    LET s  == g.stems[name]
        g1 == IF hasSource(s) THEN release(g, name, s.source) ELSE g
    IN  IF ~s.buffer THEN g
        ELSE [g1 EXCEPT
                !.stems[name].source = [createBufferSource(name) EXCEPT !.onended = TRUE],
                !.stems[name].gainNode = TRUE,
                !.stems[name].panNode = TRUE,
                !.stems[name].panValue = s.pan,
                !.stems[name].gain = IF s.muted THEN 0 ELSE s.volume]

\* source.start on the source stem `name` holds
startHeld(g, name, offset, burst, now) ==
    LET src == sourceStart(g.stems[name].source, offset, burst, now)
        g1  == [g EXCEPT !.stems[name].source = src]
    IN  IF src.state = "ended" /\ g.stems[name].source.state = "created" /\ src.onended
        THEN queueHeld(g1, name) ELSE g1

\* the body of play's start loop for one stem
playStem(g, name, ct, now) ==
    LET s  == g.stems[name]
        g1 == setupAudioNodes(g, name)
    IN  IF ~(s.active /\ s.buffer) THEN g
        ELSE IF ~hasSource(g1.stems[name]) THEN g1
        ELSE startHeld(g1, name, Min(ct, Duration[name]), FALSE, now)

RECURSIVE playFrom(_, _, _, _)
playFrom(g, i, ct, now) ==
    IF i > Len(StemOrder) THEN g
    ELSE the({playFrom(h, i + 1, ct, now) : h \in {playStem(g, StemOrder[i], ct, now)}})

\* the body of playScratchSegment's loop for one stem
scratchStem(g, name, position, now) ==
    LET s  == g.stems[name]
        g1 == setupAudioNodes(g, name)
        g2 == [g1 EXCEPT !.stems[name].source.onended = FALSE]
    IN  IF ~(s.active /\ s.buffer) THEN g
        ELSE IF ~hasSource(g1.stems[name]) THEN g1
        ELSE startHeld(g2, name, Min(position, Duration[name]), TRUE, now)

RECURSIVE scratchFrom(_, _, _, _)
scratchFrom(g, i, position, now) ==
    IF i > Len(StemOrder) THEN g
    ELSE the({scratchFrom(h, i + 1, position, now) :
                 h \in {scratchStem(g, StemOrder[i], position, now)}})

Graph == [stems |-> stems, orphans |-> orphans, events |-> events]

\* Math.max(0, Math.min(position, maxDuration))
clamp(position) == Max(0, Min(position, maxDuration))

Op(name, arg) == [op |-> name, arg |-> arg]

\* ------------------------------------------------------------ waveform data
\* extractWaveformData keeps at most this many values
WaveformResolution == 2000

\* generateMobileWaveform: sampleRate and downsampleFactor
sampleRate == 44100
downsampleFactor == 1000

\* stem.waveformData = null
NoWaveform == [computed |-> FALSE, data |-> <<>>]

\* What a stem's file holds.  For the precise engine it is the decoded buffer:
\* `length` samples, sample i being sample(i, seed).  For the compat engine it
\* is a media element of `seconds` seconds, and seed is what Math.random draws.
bufferOf(length, seed) == [kind |-> "buffer", length |-> length, seed |-> seed, seconds |-> 0]
mediaOf(seconds, seed) == [kind |-> "media", length |-> 0, seed |-> seed, seconds |-> seconds]

\* audioBuffer.getChannelData(0)[i], in units of half the full scale
sample(i, seed) == ((i * seed) % 5) - 2

abs(x) == IF x < 0 THEN 0 - x ELSE x

\* the inner loop of extractWaveformData from j on: the sum of the absolute
\* values of the block's samples
RECURSIVE blockSumFrom(_, _, _, _)
blockSumFrom(d, blockStart, blockSize, j) ==
    IF j < blockSize /\ blockStart + j < d.length
    THEN abs(sample(blockStart + j, d.seed)) + blockSumFrom(d, blockStart, blockSize, j + 1)
    ELSE 0

\* a buffer whose samples are all kept
numberOfSamplesUnreduced(length) == length

\* Math.min(audioBuffer.length, 2000)
numberOfSamples(length) == Min(length, WaveformResolution)

\* blocks counted from the end of the buffer: the samples left out are the
\* first ones
extractWaveformDataFromEnd(d) ==
    LET blockSize == d.length \div numberOfSamples(d.length)
    IN  [computed |-> TRUE,
         data |-> [i \in 1..numberOfSamples(d.length) |->
                     [sum  |-> blockSumFrom(d, d.length - (numberOfSamples(d.length) - i + 1) * blockSize,
                                            blockSize, 0),
                      over |-> blockSize]]]

\* AudioEngine.extractWaveformData: value i is blockSum / blockSize, kept as
\* the two numbers
extractWaveformData(d) ==
    LET blockSize == d.length \div numberOfSamples(d.length)
    IN  [computed |-> TRUE,
         data |-> [i \in 1..numberOfSamples(d.length) |->
                     [sum  |-> blockSumFrom(d, (i - 1) * blockSize, blockSize, 0),
                      over |-> blockSize]]]

\* MobileAudioEngine.generateMobileWaveform: a made-up wave of one value per
\* downsampleFactor samples; value i is 0.5 + 0.3 * sin(i * 0.01) * random,
\* in thousandths, the product of sine and random number being one of the
\* 201 steps from -1 to 1
generateMobileWaveform(d) ==
    LET duration == IF d.seconds = 0 THEN 1 ELSE d.seconds
        samples == duration * sampleRate
        waveformLength == samples \div downsampleFactor
    IN  [computed |-> TRUE,
         data |-> [i \in 1..waveformLength |->
                     [sum  |-> 500 + 3 * ((((i - 1) * d.seed) % 201) - 100),
                      over |-> 1000]]]

\* the audio of the transport specifications: one sample, or one second, for
\* each unit of the stem's duration
shortBuffer(name) == bufferOf(Duration[name], 1)
shortMedia(name) == mediaOf(Duration[name], 1)

\* stem.waveformData of every stem once loading is over
loadedWaveforms(st, dec) ==
    [n \in Stems |->
        IF ~st[n].buffer THEN NoWaveform
        ELSE IF dec[n].kind = "buffer" THEN extractWaveformData(dec[n])
        ELSE generateMobileWaveform(dec[n])]

\* ------------------------------------------------------------ initial state
\* The mixer after init(): every stem has its entry; a stem whose request
\* returned 404 has no buffer.  maxDuration is the longest loaded buffer.
newStem(loaded) ==
    [buffer |-> loaded, source |-> NoSource, gainNode |-> FALSE, gain |-> 0,
     volume |-> MaxVolume, muted |-> FALSE, solo |-> FALSE, active |-> TRUE,
     pan |-> 0, panNode |-> FALSE, panValue |-> 0]

RECURSIVE updateMaxDurationFrom(_, _, _)
updateMaxDurationFrom(st, i, m) ==
    IF i > Len(StemOrder) THEN m
    ELSE updateMaxDurationFrom(st, i + 1,
            IF st[StemOrder[i]].buffer /\ Duration[StemOrder[i]] > m
            THEN Duration[StemOrder[i]] ELSE m)

updateMaxDuration(st) == updateMaxDurationFrom(st, 1, 0)

Init ==
    /\ \E loaded \in SUBSET Stems :
          /\ stems = [n \in Stems |-> newStem(n \in loaded)]
          /\ maxDuration = updateMaxDuration([n \in Stems |-> newStem(n \in loaded)])
    /\ orphans = <<>>
    /\ events = <<>>
    /\ isPlaying = FALSE
    /\ currentTime = 0
    /\ startTime = 0
    /\ clock = 0
    /\ animationFrameId = FALSE
    /\ frames = 0
    /\ isInitialized = TRUE
    /\ loads = [n \in Stems |-> IF stems[n].buffer THEN "loaded" ELSE "missing"]
    /\ isScratchMode = FALSE
    /\ isDragging = FALSE
    /\ seekTimers = <<>>
    /\ scratchTimers = <<>>
    /\ audioElements = <<>>
    /\ isIOS = FALSE
    /\ decoded = [n \in Stems |-> shortBuffer(n)]
    /\ waveformData = loadedWaveforms(stems, decoded)
    /\ lastOp = Op("init", 0)

\* the graph g becomes the state
setGraph(g) ==
    \E h \in {g} :
        /\ stems' = h.stems
        /\ orphans' = h.orphans
        /\ events' = h.events

\* ------------------------------------------------------------ render loop
\* frames counts the callbacks the browser holds for the render loop.  The
\* handle the engine keeps, when it keeps one, is the handle of the callback
\* requested last.
requestAnimationFrame(n) == n + 1

\* if (animationFrameId) cancelAnimationFrame(animationFrameId): pending says
\* whether the callback the handle names is still scheduled
cancelAnimationFrame(n, pending) == IF pending THEN n - 1 ELSE n

\* a start of the loop that leaves the scheduled callback in place
startAnimationKeepingOld ==
    /\ frames' = requestAnimationFrame(frames)
    /\ animationFrameId' = TRUE

\* AudioEngine.startPlaybackAnimation
startPlaybackAnimation ==
    /\ frames' = requestAnimationFrame(cancelAnimationFrame(frames, animationFrameId))
    /\ animationFrameId' = TRUE

\* a stop of the animation that forgets the handle and cancels nothing
stopAnimationKeepingFrame ==
    /\ frames' = frames
    /\ animationFrameId' = FALSE

\* AudioEngine.stopPlaybackAnimation
stopPlaybackAnimation ==
    /\ frames' = cancelAnimationFrame(frames, animationFrameId)
    /\ animationFrameId' = FALSE

\* MobileAudioEngine.startTimeUpdate: stopTimeUpdate, then the first request
startTimeUpdate ==
    /\ frames' = requestAnimationFrame(cancelAnimationFrame(frames, animationFrameId))
    /\ animationFrameId' = TRUE

\* MobileAudioEngine.stopTimeUpdate
stopTimeUpdate ==
    /\ frames' = cancelAnimationFrame(frames, animationFrameId)
    /\ animationFrameId' = FALSE

\* ------------------------------------------------------------ transport
\* mixer.stems has an entry for stem `name`: loadStem(name) has begun
hasEntry(name) == loads[name] \notin {"none", "skipped"}

\* the guard of StemMixer.play that tests the entries alone
noStems == \A n \in Stems : ~hasEntry(n)

\* the guard of StemMixer.play
playRefused == ~isInitialized \/ \A n \in Stems : ~hasEntry(n)

\* AudioEngine.play
enginePlay(ct) ==
    /\ startTime' = clock - ct
    /\ setGraph(the({playFrom(h, 1, ct, clock) : h \in {playTeardown(Graph)}}))
    /\ isPlaying' = TRUE
    /\ startPlaybackAnimation

\* StemMixer.play
Play ==
    /\ IF playRefused
       THEN UNCHANGED <<stems, orphans, events, isPlaying, startTime,
                        animationFrameId, frames>>
       ELSE enginePlay(currentTime)
    /\ lastOp' = Op("play", 0)
    /\ UNCHANGED <<currentTime, maxDuration, clock, isScratchMode, isDragging,
                   seekTimers, scratchTimers,
                   audioElements, isIOS, isInitialized, loads,
                   decoded, waveformData>>

\* AudioEngine.pause
Pause ==
    /\ currentTime' = IF isPlaying THEN clock - startTime ELSE currentTime
    /\ setGraph(pauseTeardown(Graph))
    /\ isPlaying' = FALSE
    /\ stopPlaybackAnimation
    /\ lastOp' = Op("pause", Cardinality({n \in Stems : live(stems[n].source)}))
    /\ UNCHANGED <<maxDuration, startTime, clock, isScratchMode, isDragging,
                   seekTimers, scratchTimers,
                   audioElements, isIOS, isInitialized, loads,
                   decoded, waveformData>>

\* a stop that keeps the position, as pause does when nothing plays
engineStopKeepingPosition ==
    /\ setGraph(stopTeardown(Graph))
    /\ isPlaying' = FALSE
    /\ currentTime' = currentTime

\* AudioEngine.stop, without the render loop's handle
engineStop ==
    /\ setGraph(stopTeardown(Graph))
    /\ isPlaying' = FALSE
    /\ currentTime' = 0

Stop ==
    /\ engineStop
    /\ stopPlaybackAnimation
    /\ lastOp' = Op("stop", 0)
    /\ UNCHANGED <<maxDuration, startTime, clock, isScratchMode, isDragging,
                   seekTimers, scratchTimers,
                   audioElements, isIOS, isInitialized, loads,
                   decoded, waveformData>>

\* the end test that takes a session without loaded audio to have no end
reachedEndOfAudio == maxDuration > 0 /\ clock - startTime >= maxDuration

\* updatePlaybackPositions: the position read from the clock is at or past
\* maxDuration
reachedEnd == clock - startTime >= maxDuration

\* the render loop's callback: one scheduled callback runs (own: the one the
\* handle names), updatePlaybackPositions, then the next frame is requested
\* whatever updatePlaybackPositions did; the stop() of a tick at the end
\* cancels the callback the handle names when that one is not the caller
Tick ==
    /\ frames > 0
    /\ IF ~isPlaying
       THEN UNCHANGED <<stems, orphans, events, isPlaying, currentTime>>
       ELSE IF reachedEnd
       THEN engineStop
       ELSE /\ currentTime' = clock - startTime
            /\ UNCHANGED <<stems, orphans, events, isPlaying>>
    /\ \E own \in BOOLEAN :
          /\ IF own THEN animationFrameId
             ELSE frames > (IF animationFrameId THEN 1 ELSE 0)
          /\ frames' = requestAnimationFrame(
                 IF isPlaying /\ reachedEnd
                 THEN cancelAnimationFrame(frames - 1, animationFrameId /\ ~own)
                 ELSE frames - 1)
    /\ animationFrameId' = TRUE
    /\ lastOp' = Op("tick", IF isPlaying /\ reachedEnd THEN 1 ELSE 0)
    /\ UNCHANGED <<maxDuration, startTime, clock, isScratchMode, isDragging,
                   seekTimers, scratchTimers,
                   audioElements, isIOS, isInitialized, loads,
                   decoded, waveformData>>

\* AudioEngine.seekToPosition
Seek(position) ==
    /\ setGraph(seekTeardown(Graph))
    /\ IF isPlaying
       THEN /\ seekTimers' = Append(seekTimers, clamp(position))
            /\ UNCHANGED currentTime
       ELSE /\ currentTime' = clamp(position)
            /\ UNCHANGED seekTimers
    /\ lastOp' = Op("seek", position)
    /\ UNCHANGED <<isPlaying, maxDuration, startTime, clock, animationFrameId, frames,
                   isScratchMode, isDragging, scratchTimers,
                   audioElements, isIOS, isInitialized, loads,
                   decoded, waveformData>>

\* a restart that plays from the position it finds, not from its target
SeekRestartAtOldPosition ==
    /\ seekTimers # <<>>
    /\ currentTime' = currentTime
    /\ enginePlay(currentTime)
    /\ seekTimers' = Tail(seekTimers)
    /\ lastOp' = Op("seekRestart", Head(seekTimers))
    /\ UNCHANGED <<maxDuration, clock, isScratchMode, isDragging, scratchTimers,
                   audioElements, isIOS, isInitialized, loads,
                   decoded, waveformData>>

\* the settle delay of a seek has passed: currentTime = target; play()
SeekRestart ==
    /\ seekTimers # <<>>
    /\ currentTime' = Head(seekTimers)
    /\ enginePlay(Head(seekTimers))
    /\ seekTimers' = Tail(seekTimers)
    /\ lastOp' = Op("seekRestart", Head(seekTimers))
    /\ UNCHANGED <<maxDuration, clock, isScratchMode, isDragging, scratchTimers,
                   audioElements, isIOS, isInitialized, loads,
                   decoded, waveformData>>

\* ------------------------------------------------------------ scratch
\* Timeline: the pointer's place on the timeline, as a time
pointerToTime(x) == Max(0, Min(x, maxDuration))

\* one stop timer is set for every stem playScratchSegment starts a burst of
RECURSIVE burstTimersFrom(_, _)
burstTimersFrom(st, i) ==
    IF i > Len(StemOrder) THEN <<>>
    ELSE (IF st[StemOrder[i]].active /\ st[StemOrder[i]].buffer
          THEN <<StemOrder[i]>> ELSE <<>>) \o burstTimersFrom(st, i + 1)

\* AudioEngine.scratchAt on graph g
scratchAt(g, position) ==
    /\ currentTime' = clamp(position)
    /\ setGraph(scratchFrom(scratchTeardown(g), 1, clamp(position), clock))
    /\ scratchTimers' = scratchTimers \o burstTimersFrom(stems, 1)

\* Timeline.handleMouseDown: startScratchMode, then the first scratch
ScratchBegin(x) ==
    /\ isDragging' = TRUE
    /\ isScratchMode' = TRUE
    /\ isPlaying' = FALSE
    /\ IF isPlaying THEN stopPlaybackAnimation
       ELSE UNCHANGED <<animationFrameId, frames>>
    /\ scratchAt(IF isPlaying THEN scratchModeTeardown(Graph) ELSE Graph,
                 pointerToTime(x))
    /\ lastOp' = Op("scratchBegin", x)
    /\ UNCHANGED <<maxDuration, startTime, clock, seekTimers,
                   audioElements, isIOS, isInitialized, loads,
                   decoded, waveformData>>

\* Timeline.handleMouseMove
ScratchMove(x) ==
    /\ isDragging
    /\ scratchAt(Graph, pointerToTime(x))
    /\ lastOp' = Op("scratchMove", x)
    /\ UNCHANGED <<isPlaying, maxDuration, startTime, clock, animationFrameId, frames,
                   isScratchMode, isDragging, seekTimers,
                   audioElements, isIOS, isInitialized, loads,
                   decoded, waveformData>>

\* Timeline.handleMouseUp
ScratchEnd(x) ==
    /\ isDragging
    /\ isDragging' = FALSE
    /\ isScratchMode' = FALSE
    /\ currentTime' = pointerToTime(x)
    /\ lastOp' = Op("scratchEnd", x)
    /\ UNCHANGED <<stems, orphans, events, isPlaying, maxDuration, startTime, clock,
                   animationFrameId, frames, seekTimers, scratchTimers,
                   audioElements, isIOS, isInitialized, loads,
                   decoded, waveformData>>

\* the stop timer of a burst: it stops whatever source the stem holds now
scratchTimerFires(g, name) ==
    LET s  == g.stems[name]
    IN  IF ~hasSource(s) THEN g
        ELSE [g EXCEPT !.stems[name].source =
                 [sourceStop([s.source EXCEPT !.onended = FALSE]) EXCEPT !.tornBy = "timer"]]

ScratchTimer ==
    /\ scratchTimers # <<>>
    /\ scratchTimers' = Tail(scratchTimers)
    /\ setGraph(scratchTimerFires(Graph, Head(scratchTimers)))
    /\ lastOp' = Op("scratchTimer", 0)
    /\ UNCHANGED <<isPlaying, currentTime, maxDuration, startTime, clock,
                   animationFrameId, frames, isScratchMode, isDragging, seekTimers,
                   audioElements, isIOS, isInitialized, loads,
                   decoded, waveformData>>

\* ------------------------------------------------------------ the audio side
\* AudioEngine.handleStemEnded on graph g
handleStemEnded(g, name) ==
    LET s  == g.stems[name]
        g1 == IF hasSource(s) THEN release(g, name, s.source) ELSE g
        allEnded == \A n \in Stems : ~g1.stems[n].active \/ ~hasSource(g1.stems[n])
    IN  /\ setGraph(g1)
        /\ IF allEnded
           THEN /\ isPlaying' = FALSE
                /\ currentTime' = 0
                /\ stopPlaybackAnimation
           ELSE UNCHANGED <<isPlaying, currentTime, animationFrameId, frames>>

\* the source an entry of events names
eventSource(e) == IF e.held THEN stems[e.stem].source ELSE e.src

\* the oldest queued "ended" notification is delivered
Ended ==
    /\ events # <<>>
    /\ LET e == Head(events)
           g == [Graph EXCEPT !.events = Tail(events)]
       IN  /\ IF eventSource(e).onended
              THEN handleStemEnded(g, e.stem)
              ELSE /\ setGraph(g)
                   /\ UNCHANGED <<isPlaying, currentTime, animationFrameId, frames>>
           /\ lastOp' = Op("ended", IF e.held THEN 1 ELSE 0)
    /\ UNCHANGED <<maxDuration, startTime, clock, isScratchMode, isDragging,
                   seekTimers, scratchTimers,
                   audioElements, isIOS, isInitialized, loads,
                   decoded, waveformData>>

\* the sources that reach their end at time now, held ones first
RECURSIVE endHeldFrom(_, _, _)
endHeldFrom(g, i, now) ==
    LET name == StemOrder[i]
        src  == g.stems[name].source
        g1   == [g EXCEPT !.stems[name].source = sourceAt(src, now)]
    IN  IF i > Len(StemOrder) THEN g
        ELSE the({endHeldFrom(h, i + 1, now) :
                     h \in {IF sourceAt(src, now) = src THEN g
                            ELSE IF src.onended THEN queueHeld(g1, name) ELSE g1}})

RECURSIVE endOrphansFrom(_, _, _)
endOrphansFrom(g, i, now) ==
    IF i > Len(g.orphans) THEN g
    ELSE IF sourceAt(g.orphans[i], now) # g.orphans[i]
    THEN the({endOrphansFrom(h, i, now) :
                 h \in {[g EXCEPT
                           !.orphans = SubSeq(@, 1, i - 1) \o SubSeq(@, i + 1, Len(@)),
                           !.events = IF g.orphans[i].onended
                                      THEN Append(@, lostEvent(lost(sourceAt(g.orphans[i], now))))
                                      ELSE @]}})
    ELSE endOrphansFrom(g, i + 1, now)

\* the audio clock advances
clockStep ==
    /\ clock' = clock + 1
    /\ setGraph(the({endOrphansFrom(h, 1, clock + 1) :
                        h \in {endHeldFrom(Graph, 1, clock + 1)}}))
    /\ lastOp' = Op("clock", 0)
    /\ UNCHANGED <<isPlaying, currentTime, maxDuration, startTime, animationFrameId, frames,
                   isScratchMode, isDragging, seekTimers, scratchTimers,
                   audioElements, isIOS, isInitialized, loads,
                   decoded, waveformData>>

\* the clock within the horizon of the model
ClockAdvance ==
    /\ clock < MaxClock
    /\ clockStep

\* the clock of a session left to itself: past the horizon it runs on for as
\* long as playback has not reached maxDuration or a source nothing
\* references is still sounding
ClockRuns ==
    /\ \/ clock < MaxClock
       \/ isPlaying /\ clock - startTime < maxDuration
       \/ orphans # <<>>
    /\ clockStep

\* ------------------------------------------------------------ track controls
\* AudioEngine.updateSoloMuteStates with TrackControls.updateTrackStatus
updateSoloMuteStates(st) ==
    LET hasSolo == \E n \in Stems : st[n].solo IN
    [n \in Stems |->
        IF ~st[n].gainNode THEN st[n]
        ELSE [st[n] EXCEPT
                !.gain = IF hasSolo THEN (IF st[n].solo THEN st[n].volume ELSE 0)
                         ELSE (IF st[n].muted THEN 0 ELSE st[n].volume),
                !.active = IF hasSolo THEN st[n].solo ELSE ~st[n].muted]]

\* TrackControls.toggleSolo
ToggleSolo(name) ==
    /\ stems' = updateSoloMuteStates([stems EXCEPT ![name].solo = ~@])
    /\ lastOp' = Op("toggleSolo", 0)
    /\ UNCHANGED <<orphans, events, isPlaying, currentTime, maxDuration, startTime,
                   clock, animationFrameId, frames, isScratchMode, isDragging, seekTimers,
                   scratchTimers,
                   audioElements, isIOS, isInitialized, loads,
                   decoded, waveformData>>

\* TrackControls.toggleMute
ToggleMute(name) ==
    /\ stems' = updateSoloMuteStates([stems EXCEPT ![name].muted = ~@])
    /\ lastOp' = Op("toggleMute", 0)
    /\ UNCHANGED <<orphans, events, isPlaying, currentTime, maxDuration, startTime,
                   clock, animationFrameId, frames, isScratchMode, isDragging, seekTimers,
                   scratchTimers,
                   audioElements, isIOS, isInitialized, loads,
                   decoded, waveformData>>

\* a volume control that writes the gain of a muted stem too
updateVolumeOfMuted(st, name, value) ==
    [st EXCEPT ![name].volume = value,
               ![name].gain = IF st[name].gainNode THEN value ELSE @]

\* TrackControls.updateVolume
updateVolume(st, name, value) ==
    [st EXCEPT ![name].volume = value,
               ![name].gain = IF st[name].gainNode /\ ~st[name].muted
                              THEN value ELSE @]

UpdateVolume(name, value) ==
    /\ stems' = updateVolume(stems, name, value)
    /\ lastOp' = Op("updateVolume", value)
    /\ UNCHANGED <<orphans, events, isPlaying, currentTime, maxDuration, startTime,
                   clock, animationFrameId, frames, isScratchMode, isDragging, seekTimers,
                   scratchTimers,
                   audioElements, isIOS, isInitialized, loads,
                   decoded, waveformData>>

\* a pan control that rebuilds the stem's audio nodes
updatePanDroppingSource(st, name, value) ==
    [st EXCEPT ![name].pan = value,
               ![name].panValue = IF st[name].panNode THEN value ELSE @,
               ![name].source = NoSource]

\* TrackControls.updatePan
updatePan(st, name, value) ==
    [st EXCEPT ![name].pan = value,
               ![name].panValue = IF st[name].panNode THEN value ELSE @]

UpdatePan(name, value) ==
    /\ stems' = updatePan(stems, name, value)
    /\ lastOp' = Op("updatePan", value)
    /\ UNCHANGED <<orphans, events, isPlaying, currentTime, maxDuration, startTime,
                   clock, animationFrameId, frames, isScratchMode, isDragging, seekTimers,
                   scratchTimers,
                   audioElements, isIOS, isInitialized, loads,
                   decoded, waveformData>>

\* ------------------------------------------------------------ compat engine
\* The compat engine keeps one media element per loaded stem.  An element
\* moves its position into [0, duration] on every seek, is paused when its
\* playback ends, and starts over when it is played at its end.
mediaSeek(name, time) == Max(0, Min(time, Duration[name]))

\* MobileAudioEngine.loadStem: the entry of audioElements
\* `index` is the place of the entry among the keys of audioElements, which
\* is the order in which the entries were stored
newElement ==
    [position |-> 0, paused |-> TRUE, audioVolume |-> MaxVolume, audioMuted |-> FALSE,
     volume |-> MaxVolume, muted |-> FALSE, solo |-> FALSE, index |-> 1]

\* the orders in which the loads of the stems of S can have stored their entries
keyOrders(S) ==
    {f \in [S -> 1..Cardinality(S)] : \A a, b \in S : f[a] = f[b] => a = b}

\* the mixer after init() with the compat engine
InitCompat ==
    /\ \E loaded \in SUBSET Stems, ios \in BOOLEAN :
          /\ stems = [n \in Stems |-> newStem(n \in loaded)]
          /\ maxDuration = updateMaxDuration([n \in Stems |-> newStem(n \in loaded)])
          /\ \E order \in keyOrders(loaded) :
                audioElements = [n \in loaded |-> [newElement EXCEPT !.index = order[n]]]
          /\ isIOS = ios
    /\ orphans = <<>>
    /\ events = <<>>
    /\ isPlaying = FALSE
    /\ currentTime = 0
    /\ startTime = 0
    /\ clock = 0
    /\ animationFrameId = FALSE
    /\ frames = 0
    /\ isInitialized = TRUE
    /\ loads = [n \in Stems |-> IF stems[n].buffer THEN "loaded" ELSE "missing"]
    /\ isScratchMode = FALSE
    /\ isDragging = FALSE
    /\ seekTimers = <<>>
    /\ scratchTimers = <<>>
    /\ decoded = [n \in Stems |-> shortMedia(n)]
    /\ waveformData = loadedWaveforms(stems, decoded)
    /\ lastOp = Op("init", 0)

\* what the precise engine alone uses
preciseVars == <<stems, orphans, events, startTime, clock, isScratchMode, isDragging,
                 seekTimers, scratchTimers>>

\* MobileAudioEngine.play, behind StemMixer.play's guard
MobilePlay ==
    /\ IF \A n \in Stems : ~stems[n].buffer
       THEN UNCHANGED <<audioElements, animationFrameId, frames>>
       ELSE /\ audioElements' =
                  [n \in DOMAIN audioElements |->
                      [audioElements[n] EXCEPT
                          !.position = IF mediaSeek(n, currentTime) >= Duration[n]
                                       THEN 0 ELSE mediaSeek(n, currentTime),
                          !.paused = FALSE]]
            /\ startTimeUpdate
    /\ lastOp' = Op("play", 0)
    /\ UNCHANGED <<preciseVars, isPlaying, currentTime, maxDuration, isIOS, isInitialized, loads,
                   decoded, waveformData>>

\* MobileAudioEngine.pause
MobilePause ==
    /\ audioElements' = [n \in DOMAIN audioElements |->
                            [audioElements[n] EXCEPT !.paused = TRUE]]
    /\ stopTimeUpdate
    /\ lastOp' = Op("pause", 0)
    /\ UNCHANGED <<preciseVars, isPlaying, currentTime, maxDuration, isIOS, isInitialized, loads,
                   decoded, waveformData>>

\* MobileAudioEngine.stop
MobileStop ==
    /\ audioElements' = [n \in DOMAIN audioElements |->
                            [audioElements[n] EXCEPT !.paused = TRUE, !.position = 0]]
    /\ currentTime' = 0
    /\ stopTimeUpdate
    /\ lastOp' = Op("stop", 0)
    /\ UNCHANGED <<preciseVars, isPlaying, maxDuration, isIOS, isInitialized, loads,
                   decoded, waveformData>>

\* MobileAudioEngine.seekTo
MobileSeekTo(time) ==
    /\ audioElements' = [n \in DOMAIN audioElements |->
                            [audioElements[n] EXCEPT !.position = mediaSeek(n, time)]]
    /\ currentTime' = time
    /\ lastOp' = Op("seek", time)
    /\ UNCHANGED <<preciseVars, isPlaying, maxDuration, animationFrameId, frames, isIOS, isInitialized, loads,
                   decoded, waveformData>>

\* Object.values(audioElements)[0]
firstStem == CHOOSE n \in DOMAIN audioElements : audioElements[n].index = 1

\* the update loop's callback: MobileAudioEngine.updateTime, then the next
\* frame is requested
MobileUpdateTime ==
    /\ frames > 0
    /\ currentTime' = IF DOMAIN audioElements # {}
                         /\ ~audioElements[firstStem].paused
                      THEN audioElements[firstStem].position
                      ELSE currentTime
    /\ frames' = requestAnimationFrame(frames - 1)
    /\ animationFrameId' = TRUE
    /\ lastOp' = Op("tick", 0)
    /\ UNCHANGED <<preciseVars, isPlaying, maxDuration, audioElements, isIOS, isInitialized, loads,
                   decoded, waveformData>>

\* the media elements play on: an element that reaches its end is paused
MediaAdvance ==
    /\ \E n \in DOMAIN audioElements : ~audioElements[n].paused
    /\ audioElements' =
          [n \in DOMAIN audioElements |->
              IF audioElements[n].paused THEN audioElements[n]
              ELSE [audioElements[n] EXCEPT
                      !.position = Min(@ + 1, Duration[n]),
                      !.paused = audioElements[n].position + 1 >= Duration[n]]]
    /\ lastOp' = Op("clock", 0)
    /\ UNCHANGED <<preciseVars, isPlaying, currentTime, maxDuration, animationFrameId, frames,
                   isIOS, isInitialized, loads,
                   decoded, waveformData>>

\* stem.muted || (hasSolo && !stem.solo) of MobileAudioEngine.updateStemAudio
shouldBeMuted(ae, name) ==
    ae[name].muted \/ ((\E n \in DOMAIN ae : ae[n].solo) /\ ~ae[name].solo)

\* MobileAudioEngine.updateStemAudio (masterVolume is 1)
updateStemAudio(ae, name) ==
    LET finalVolume == IF shouldBeMuted(ae, name) THEN 0 ELSE ae[name].volume IN
    IF isIOS
    THEN [ae EXCEPT ![name].audioMuted = shouldBeMuted(ae, name) \/ finalVolume = 0]
    ELSE [ae EXCEPT ![name].audioVolume = Max(0, Min(MaxVolume, finalVolume)),
                    ![name].audioMuted = shouldBeMuted(ae, name)]

RECURSIVE updateStemAudioFrom(_, _)
updateStemAudioFrom(ae, i) ==
    IF i > Len(StemOrder) THEN ae
    ELSE updateStemAudioFrom(IF StemOrder[i] \in DOMAIN ae
                             THEN updateStemAudio(ae, StemOrder[i]) ELSE ae, i + 1)

\* MobileAudioEngine.setStemVolume
SetStemVolume(name, volume) ==
    /\ name \in DOMAIN audioElements
    /\ audioElements' = updateStemAudio([audioElements EXCEPT ![name].volume = volume], name)
    /\ lastOp' = Op("updateVolume", volume)
    /\ UNCHANGED <<preciseVars, isPlaying, currentTime, maxDuration, animationFrameId, frames,
                   isIOS, isInitialized, loads,
                   decoded, waveformData>>

\* MobileAudioEngine.setStemMuted
SetStemMuted(name, muted) ==
    /\ name \in DOMAIN audioElements
    /\ audioElements' = updateStemAudio([audioElements EXCEPT ![name].muted = muted], name)
    /\ lastOp' = Op("toggleMute", 0)
    /\ UNCHANGED <<preciseVars, isPlaying, currentTime, maxDuration, animationFrameId, frames,
                   isIOS, isInitialized, loads,
                   decoded, waveformData>>

\* MobileAudioEngine.setStemSolo
SetStemSolo(name, solo) ==
    /\ name \in DOMAIN audioElements
    /\ audioElements' = updateStemAudioFrom([audioElements EXCEPT ![name].solo = solo], 1)
    /\ lastOp' = Op("toggleSolo", 0)
    /\ UNCHANGED <<preciseVars, isPlaying, currentTime, maxDuration, animationFrameId, frames,
                   isIOS, isInitialized, loads,
                   decoded, waveformData>>

\* ------------------------------------------------------------ the solo/mute rule
\* both engines hold the same stems with the same flags and volumes
InitFlags ==
    /\ \E muted \in [Stems -> BOOLEAN], solo \in [Stems -> BOOLEAN],
          volume \in [Stems -> Volumes] :
          /\ stems = [n \in Stems |->
                        [newStem(TRUE) EXCEPT !.gainNode = TRUE, !.muted = muted[n],
                                              !.solo = solo[n], !.volume = volume[n]]]
          /\ audioElements = [n \in Stems |->
                        [newElement EXCEPT !.muted = muted[n], !.solo = solo[n],
                                           !.volume = volume[n],
                                           !.index = CHOOSE i \in 1..Len(StemOrder) :
                                                        StemOrder[i] = n]]
    /\ maxDuration = updateMaxDuration([n \in Stems |-> newStem(TRUE)])
    /\ isIOS = FALSE
    /\ orphans = <<>>
    /\ events = <<>>
    /\ isPlaying = FALSE
    /\ currentTime = 0
    /\ startTime = 0
    /\ clock = 0
    /\ animationFrameId = FALSE
    /\ frames = 0
    /\ isInitialized = TRUE
    /\ loads = [n \in Stems |-> IF stems[n].buffer THEN "loaded" ELSE "missing"]
    /\ isScratchMode = FALSE
    /\ isDragging = FALSE
    /\ seekTimers = <<>>
    /\ scratchTimers = <<>>
    /\ decoded = [n \in Stems |-> shortMedia(n)]
    /\ waveformData = loadedWaveforms(stems, decoded)
    /\ lastOp = Op("init", 0)

\* each engine applies its rule to every stem
ApplySoloMute ==
    /\ lastOp.op = "init"
    /\ stems' = updateSoloMuteStates(stems)
    /\ audioElements' = updateStemAudioFrom(audioElements, 1)
    /\ lastOp' = Op("applySoloMute", 0)
    /\ UNCHANGED <<orphans, events, isPlaying, currentTime, maxDuration, startTime, clock,
                   animationFrameId, frames, isScratchMode, isDragging, seekTimers,
                   scratchTimers, isIOS, isInitialized, loads,
                   decoded, waveformData>>

\* ------------------------------------------------------------ loading
\* The mixer after its constructor: init() has begun and no stem has an entry.
\* loads[name] follows loadStem(name): "none" (not called), "skipped" (init()
\* gave up before loadStems), "fetching", "decoded" (the buffer is stored, the
\* waveform data is being extracted), and, once its promise has settled,
\* "loaded", "missing" (404) or "failed" (any other error).
InitLoad ==
    /\ stems = [n \in Stems |-> newStem(FALSE)]
    /\ loads = [n \in Stems |-> "none"]
    /\ isInitialized = FALSE
    /\ maxDuration = 0
    /\ orphans = <<>>
    /\ events = <<>>
    /\ isPlaying = FALSE
    /\ currentTime = 0
    /\ startTime = 0
    /\ clock = 0
    /\ animationFrameId = FALSE
    /\ frames = 0
    /\ isScratchMode = FALSE
    /\ isDragging = FALSE
    /\ seekTimers = <<>>
    /\ scratchTimers = <<>>
    /\ audioElements = <<>>
    /\ isIOS = FALSE
    /\ decoded = [n \in Stems |-> shortBuffer(n)]
    /\ waveformData = [n \in Stems |-> NoWaveform]
    /\ lastOp = Op("new", 0)

\* what loading leaves alone
loadFrame == <<orphans, events, isPlaying, currentTime, startTime, clock,
               animationFrameId, frames, isScratchMode, isDragging, seekTimers,
               scratchTimers, audioElements, isIOS, decoded>>

\* the promise of every loadStem has settled
allSettled(l) == \A n \in Stems : l[n] \in {"loaded", "missing", "failed"}

\* the rest of loadStems and of init(), which run when Promise.all resolves
\* with the last loadStem: updateMaxDuration(), then isInitialized = true
afterLoad(l, st) ==
    IF allSettled(l)
    THEN /\ maxDuration' = updateMaxDuration(st)
         /\ isInitialized' = TRUE
    ELSE UNCHANGED <<maxDuration, isInitialized>>

\* init() reaches loadStems: loadStem is called for every stem, and each call
\* stores the stem's entry and sends its request
LoadStems ==
    /\ \A n \in Stems : loads[n] = "none"
    /\ stems' = [n \in Stems |-> newStem(FALSE)]
    /\ loads' = [n \in Stems |-> "fetching"]
    /\ waveformData' = [n \in Stems |-> NoWaveform]
    /\ lastOp' = Op("loadStems", 0)
    /\ UNCHANGED <<loadFrame, maxDuration, isInitialized>>

\* init() throws before loadStems (no extraction id): it logs and gives up
InitFails ==
    /\ \A n \in Stems : loads[n] = "none"
    /\ loads' = [n \in Stems |-> "skipped"]
    /\ lastOp' = Op("initFails", 0)
    /\ UNCHANGED <<loadFrame, stems, maxDuration, isInitialized, waveformData>>

\* loadStem(name): the response is 404, loadStem logs and returns
Stem404(name) ==
    /\ loads[name] = "fetching"
    /\ loads' = [loads EXCEPT ![name] = "missing"]
    /\ afterLoad(loads', stems)
    /\ lastOp' = Op("load404", 0)
    /\ UNCHANGED <<loadFrame, stems, waveformData>>

\* loadStem(name): the request or the decoding fails, the catch logs it
StemFails(name) ==
    /\ loads[name] = "fetching"
    /\ loads' = [loads EXCEPT ![name] = "failed"]
    /\ afterLoad(loads', stems)
    /\ lastOp' = Op("loadFails", 0)
    /\ UNCHANGED <<loadFrame, stems, waveformData>>

\* loadStem(name): the audio is decoded and stored in the stem's entry
StemDecoded(name) ==
    /\ loads[name] = "fetching"
    /\ loads' = [loads EXCEPT ![name] = "decoded"]
    /\ stems' = [stems EXCEPT ![name].buffer = TRUE]
    /\ lastOp' = Op("loadDecoded", 0)
    /\ UNCHANGED <<loadFrame, maxDuration, isInitialized, waveformData>>

\* loadStem(name): extractWaveformData has stored the stem's waveform data
StemLoaded(name) ==
    /\ loads[name] = "decoded"
    /\ loads' = [loads EXCEPT ![name] = "loaded"]
    /\ waveformData' = [waveformData EXCEPT ![name] = extractWaveformData(decoded[name])]
    /\ afterLoad(loads', stems)
    /\ lastOp' = Op("loadDone", 0)
    /\ UNCHANGED <<loadFrame, stems>>

\* MobileAudioEngine.loadStem(name) from the element's loadedmetadata on: the
\* stem's entry, updateMaxDuration, the entry of audioElements, the waveform
\* data; init() goes on when all stems have settled
MobileStemLoaded(name) ==
    /\ loads[name] = "fetching"
    /\ decoded[name].kind = "media"
    /\ loads' = [loads EXCEPT ![name] = "loaded"]
    /\ stems' = [stems EXCEPT ![name].buffer = TRUE]
    /\ maxDuration' = updateMaxDuration(stems')
    /\ isInitialized' = allSettled(loads')
    /\ audioElements' = [n \in DOMAIN audioElements \cup {name} |->
                            IF n = name
                            THEN [newElement EXCEPT
                                    !.index = Cardinality(DOMAIN audioElements) + 1]
                            ELSE audioElements[n]]
    /\ waveformData' = [waveformData EXCEPT ![name] = generateMobileWaveform(decoded[name])]
    /\ lastOp' = Op("mobileLoadDone", 0)
    /\ UNCHANGED <<orphans, events, isPlaying, currentTime, startTime, clock,
                   animationFrameId, frames, isScratchMode, isDragging, seekTimers,
                   scratchTimers, isIOS, decoded>>

\* the audio files of the waveform specification
MaxSamples == 4001
MaxSeconds == 46
Lengths == {1, 2, WaveformResolution - 1, WaveformResolution, WaveformResolution + 1,
            2 * WaveformResolution, MaxSamples}
Seconds == {0, 1, MaxSeconds - 1, MaxSeconds}
Seeds == {1, 2}

\* Loading is under way with the audio of every stem at hand: the precise
\* engine has decoded every buffer and is about to extract the waveform data,
\* the compat engine waits for the metadata of every media element.
InitWaveform ==
    /\ \/ /\ decoded \in [Stems -> {bufferOf(l, r) : l \in Lengths, r \in Seeds}]
          /\ stems = [n \in Stems |-> newStem(TRUE)]
          /\ loads = [n \in Stems |-> "decoded"]
       \/ /\ decoded \in [Stems -> {mediaOf(t, r) : t \in Seconds, r \in Seeds}]
          /\ stems = [n \in Stems |-> newStem(FALSE)]
          /\ loads = [n \in Stems |-> "fetching"]
    /\ waveformData = [n \in Stems |-> NoWaveform]
    /\ isInitialized = FALSE
    /\ maxDuration = 0
    /\ orphans = <<>>
    /\ events = <<>>
    /\ isPlaying = FALSE
    /\ currentTime = 0
    /\ startTime = 0
    /\ clock = 0
    /\ animationFrameId = FALSE
    /\ frames = 0
    /\ isScratchMode = FALSE
    /\ isDragging = FALSE
    /\ seekTimers = <<>>
    /\ scratchTimers = <<>>
    /\ audioElements = <<>>
    /\ isIOS = FALSE
    /\ lastOp = Op("loadStems", 0)

NextWaveform ==
    \/ \E n \in Stems : StemLoaded(n)
    \/ \E n \in Stems : MobileStemLoaded(n)

SpecWaveform == InitWaveform /\ [][NextWaveform]_vars

\* ------------------------------------------------------------ specification
Positions == (0 - 1)..(maxDuration + 1)

\* the bound on what is in flight
Bounded ==
    Len(orphans') + Len(events') + Len(seekTimers') + Len(scratchTimers') <= MaxInFlight

Transport ==
    \/ Play
    \/ Pause
    \/ Stop
    \/ Tick
    \/ \E p \in Positions : Seek(p)
    \/ SeekRestart
    \/ Ended
    \/ ClockAdvance

Scratch ==
    \/ \E x \in Positions : ScratchBegin(x)
    \/ \E x \in Positions : ScratchMove(x)
    \/ \E x \in Positions : ScratchEnd(x)
    \/ ScratchTimer

Controls ==
    \/ \E n \in Stems : ToggleSolo(n)
    \/ \E n \in Stems : ToggleMute(n)
    \/ \E n \in Stems, v \in Volumes : UpdateVolume(n, v)

Next == Transport

Spec == Init /\ [][Next /\ Bounded]_vars

\* the transport with user operations up to the horizon (the bound on what
\* is in flight limits them alone), after which the session is left to the
\* clock, the render loop, the timers and the notifications, none of which
\* waits forever
NextLive ==
    \/ clock < MaxClock /\ Play /\ Bounded
    \/ clock < MaxClock /\ Pause /\ Bounded
    \/ clock < MaxClock /\ Stop /\ Bounded
    \/ clock < MaxClock /\ (\E p \in Positions : Seek(p)) /\ Bounded
    \/ Tick
    \/ SeekRestart
    \/ Ended
    \/ ClockRuns

SpecLive ==
    /\ Init
    /\ [][NextLive]_vars
    /\ WF_vars(Tick)
    /\ WF_vars(SeekRestart)
    /\ WF_vars(Ended)
    /\ WF_vars(ClockRuns)

\* everything that starts, stops or runs the render loop of the precise
\* engine: the transport and the scratch gesture together, with one less in
\* flight than the transport alone is given
NextLoop ==
    \/ Transport
    \/ Scratch

MaxLoopInFlight == MaxInFlight - 1

BoundedLoop ==
    Len(orphans') + Len(events') + Len(seekTimers') + Len(scratchTimers')
        <= MaxLoopInFlight

SpecLoop == Init /\ [][NextLoop /\ BoundedLoop]_vars

\* from the constructor to the end of init(), with the transport in the
\* user's hands meanwhile
NextLoad ==
    \/ ~isInitialized /\ LoadStems
    \/ ~isInitialized /\ InitFails
    \/ ~isInitialized /\ \E n \in Stems : Stem404(n)
    \/ ~isInitialized /\ \E n \in Stems : StemFails(n)
    \/ ~isInitialized /\ \E n \in Stems : StemDecoded(n)
    \/ ~isInitialized /\ \E n \in Stems : StemLoaded(n)
    \/ ~isInitialized /\ Play
    \/ ~isInitialized /\ Pause
    \/ ~isInitialized /\ Stop
    \/ ~isInitialized /\ \E p \in Positions : Seek(p)
    \/ ~isInitialized /\ ClockAdvance

SpecLoad == InitLoad /\ [][NextLoad]_vars

NextScratch ==
    \/ Play
    \/ Pause
    \/ Scratch
    \/ Ended
    \/ ClockAdvance

SpecScratch == Init /\ [][NextScratch /\ Bounded]_vars

NextMix ==
    \/ Play
    \/ Pause
    \/ Controls
    \/ Ended
    \/ ClockAdvance

SpecMix == Init /\ [][NextMix /\ Bounded]_vars

NextCompat ==
    \/ MobilePlay
    \/ MobilePause
    \/ MobileStop
    \/ \E p \in Positions : MobileSeekTo(p)
    \/ MobileUpdateTime
    \/ MediaAdvance
    \/ \E n \in Stems, v \in Volumes : SetStemVolume(n, v)
    \/ \E n \in Stems, b \in BOOLEAN : SetStemMuted(n, b)
    \/ \E n \in Stems, b \in BOOLEAN : SetStemSolo(n, b)

\* the track controls, pan included, beside a transport that plays, pauses
\* and runs its render loop, at one moment of the audio clock
MaxPan == 1
Pans == (0 - MaxPan)..MaxPan

NextRouting ==
    \/ Play
    \/ Pause
    \/ Tick
    \/ Controls
    \/ \E n \in Stems, p \in Pans : UpdatePan(n, p)

SpecRouting == Init /\ [][NextRouting /\ BoundedLoop]_vars

SpecCompat == InitCompat /\ [][NextCompat]_vars

SpecAudibility == InitFlags /\ [][ApplySoloMute]_vars

\* ------------------------------------------------------------ claims
\* C1: once an operation has returned, the playback position is within the
\* session: 0 <= currentTime <= maxDuration.
C1_PositionInRange == 0 <= currentTime /\ currentTime <= maxDuration

\* C2: every source object, whether a stem holds it, it still sounds without
\* a reference or its notification is queued, has been started at most once.
C2_StartedAtMostOnce ==
    /\ \A n \in Stems : stems[n].source.starts <= 1
    /\ \A i \in 1..Len(orphans) : orphans[i].starts <= 1
    /\ \A i \in 1..Len(events) : events[i].src.starts <= 1

\* C2 happens: a scratch move has given a stem that has its gain node a new
\* burst source, started once.
C2_BurstSourceStartedOnce ==
    /\ lastOp.op = "scratchMove"
    /\ \E n \in Stems : /\ stems[n].source.burst
                        /\ stems[n].source.starts = 1
                        /\ stems[n].gainNode

\* C3: each stem has at most one source that was started and has neither
\* been stopped nor ended.
C3_OneLiveSourcePerStem ==
    \A n \in Stems :
        (IF live(stems[n].source) THEN 1 ELSE 0)
          + Cardinality({i \in 1..Len(orphans) : orphans[i].stem = n}) <= 1

\* C4: the "ended" notification of a source that a programmatic teardown
\* discarded changes no stem's source reference, nor isPlaying, nor currentTime.
C4_LateEndedHasNoEffect ==
    [][(/\ lastOp'.op = "ended"
        /\ ~Head(events).held
        /\ Head(events).src.tornBy # "none")
       => (/\ \A n \in Stems : stems'[n].source = stems[n].source
           /\ isPlaying' = isPlaying
           /\ currentTime' = currentTime)]_vars

\* C5: no source that pause() or seek() stopped has a notification that
\* finds a handler: none is queued, so none runs the natural-end check.
C5_PauseSeekNeverNotify ==
    \A i \in 1..Len(events) :
        ~events[i].held => events[i].src.tornBy \notin {"pause", "seek"}

\* C5 happens: pause() has stopped sources that were sounding, and no
\* notification is left.
C5_PausedLiveSources ==
    /\ lastOp.op = "pause"
    /\ lastOp.arg >= 1
    /\ events = <<>>

\* C6: when the notification of a source that ended by itself is handled
\* while another active stem still has a live source, isPlaying and
\* currentTime are left as they were.
C6_NaturalEndWaitsForOthers ==
    [][(/\ lastOp'.op = "ended"
        /\ Head(events).held
        /\ stems[Head(events).stem].source.onended
        /\ stems[Head(events).stem].source.state = "ended"
        /\ \E n \in Stems \ {Head(events).stem} :
              /\ stems[n].active
              /\ \/ live(stems[n].source)
                 \/ \E i \in 1..Len(orphans) : orphans[i].stem = n)
       => (isPlaying' = isPlaying /\ currentTime' = currentTime)]_vars

\* C7: the gain of every stem that has a gain node is its volume when the
\* stem is audible (solo when some stem is solo, not muted otherwise), else 0.
C7_EffectiveGain ==
    \A n \in Stems :
        stems[n].gainNode =>
            stems[n].gain =
                IF (IF \E m \in Stems : stems[m].solo
                    THEN stems[n].solo ELSE ~stems[n].muted)
                THEN stems[n].volume ELSE 0

\* C8: for the same flags, the precise engine finds a stem audible exactly
\* when the compat engine does not mute it.
C8_SameAudibility ==
    lastOp.op = "applySoloMute" =>
        \A n \in Stems : stems[n].active = ~audioElements[n].audioMuted

\* C9: play() right after seek(t) leaves the position at clamp(t) and has
\* started every active loaded stem at min(clamp(t), its duration).
C9_SeekThenPlay ==
    [][(lastOp.op = "seek" /\ lastOp'.op = "play")
       => (/\ currentTime' = clamp(lastOp.arg)
           /\ \A n \in Stems :
                (stems[n].active /\ stems[n].buffer) =>
                    /\ stems'[n].source.starts = 1
                    /\ stems'[n].source.offset = Min(clamp(lastOp.arg), Duration[n]))]_vars

\* C10: after a seek or a scratch move to any position, currentTime is
\* within [0, maxDuration].
C10_SeekIsClamped ==
    lastOp.op \in {"seek", "scratchBegin", "scratchMove"} =>
        (0 <= currentTime /\ currentTime <= maxDuration)

\* C11: when seek(position) has returned, currentTime is clamp(position) and
\* no seek restart is left pending.
C11_SeekIsSynchronous ==
    lastOp.op = "seek" =>
        (currentTime = clamp(lastOp.arg) /\ seekTimers = <<>>)

\* C12: pause() right after seek(t) holds the position clamp(t), and every
\* play() resumes at the position it finds, whatever the clock shows: the
\* position is kept, the start time is the clock minus the position, and every
\* active loaded stem is started at min(position, its duration).
C12_SeekPausePlay ==
    [][/\ (lastOp.op = "seek" /\ lastOp'.op = "pause")
           => currentTime' = clamp(lastOp.arg)
       /\ lastOp'.op = "play"
           => (/\ currentTime' = currentTime
               /\ startTime' = clock - currentTime
               /\ \A n \in Stems :
                    (stems[n].active /\ stems[n].buffer) =>
                        stems'[n].source.offset = Min(currentTime, Duration[n]))]_vars


\* the operations a user makes on the transport
UserOps == {"play", "pause", "stop", "seek"}

\* C13: a render-loop tick that reads a position at or past maxDuration while
\* playing leaves the session stopped at position 0, and the step that follows
\* it, unless it is a user operation, leaves it stopped at position 0.
C13_TerminalTickStops ==
    [][/\ (lastOp'.op = "tick" /\ lastOp'.arg = 1)
            => (~isPlaying' /\ currentTime' = 0)
       /\ (lastOp.op = "tick" /\ lastOp.arg = 1 /\ lastOp'.op \notin UserOps)
            => (~isPlaying' /\ currentTime' = 0)]_vars


\* C14: a session that is playing when the user operations stop reaches
\* isPlaying false with currentTime 0: a step that is not a user operation and
\* ends playing leaves currentTime 0, and a session still playing at the
\* horizon, after which no user operation is made, is eventually stopped at 0.
C14_PlaybackEnds ==
    /\ [][(isPlaying /\ ~isPlaying' /\ lastOp'.op \notin UserOps)
            => currentTime' = 0]_vars
    /\ (isPlaying /\ clock >= MaxClock) ~> (~isPlaying /\ currentTime = 0)

\* playback left to itself ran out past the horizon and the render loop
\* stopped it
C14_RanOutAndStopped ==
    /\ lastOp = Op("tick", 1)
    /\ clock > MaxClock
    /\ ~isPlaying
    /\ currentTime = 0


\* C15: at most one render-loop callback is scheduled at any time.
C15_OneRenderLoop == frames <= 1

\* the tick that called stop() has requested the next frame: one callback is
\* scheduled, and the session is stopped
C15_LoopAfterTerminalTick ==
    /\ lastOp = Op("tick", 1)
    /\ frames = 1
    /\ ~isPlaying


\* C16: play() before init() has completed changes nothing: isPlaying,
\* currentTime, the sources and the render loop are as they were.
C16_PlayBeforeInit ==
    [][(lastOp'.op = "play" /\ ~isInitialized)
        => UNCHANGED <<isPlaying, currentTime, startTime, stems, orphans, events,
                       animationFrameId, frames>>]_vars

\* play() was called while a stem had its audio and init() was not over
C16_PlayedWhileLoading ==
    /\ lastOp.op = "play"
    /\ ~isInitialized
    /\ \E n \in Stems : stems[n].buffer


\* C17: play() on a stopped session in which no stem is active with loaded
\* audio has no effect: isPlaying stays false, no stem gets a source, and the
\* render loop is not started.
C17_PlayWithoutAudio ==
    [][(/\ lastOp'.op = "play"
        /\ ~isPlaying
        /\ \A n \in Stems : ~(stems[n].active /\ stems[n].buffer))
        => (/\ ~isPlaying'
            /\ \A n \in Stems : ~hasSource(stems'[n])
            /\ animationFrameId' = animationFrameId
            /\ frames' = frames)]_vars


\* the longest duration among the stems whose audio is stored (0 when none)
longestLoaded ==
    LET ds == {Duration[n] : n \in {m \in Stems : stems[m].buffer}}
    IN  IF ds = {} THEN 0 ELSE CHOOSE d \in ds : \A e \in ds : e <= d

\* C18: a stem whose request returned 404 is marked inactive, and once init()
\* is over maxDuration is the longest duration among the stems that loaded.
C18_MissingStemInactive ==
    /\ \A n \in Stems : loads[n] = "missing" => ~stems[n].active
    /\ isInitialized => maxDuration = longestLoaded


\* C19: a stem whose load failed with another error than 404 is inactive and
\* has no audio, every other stem's load goes on to its own outcome, and
\* init() is over as soon as every load has settled, whatever the outcomes.
C19_FailedStemInactive ==
    /\ \A n \in Stems : loads[n] = "failed" => (~stems[n].active /\ ~stems[n].buffer)
    /\ allSettled(loads) => isInitialized

\* the longest duration among the stems whose loadStem has settled with audio
longestSettled ==
    LET ds == {Duration[n] : n \in {m \in Stems : loads[m] = "loaded"}}
    IN  IF ds = {} THEN 0 ELSE CHOOSE d \in ds : \A e \in ds : e <= d

\* C20: at every state maxDuration is the longest duration among the stems
\* that have finished loading, 0 when there is none.
C20_MaxDurationFollowsLoads == maxDuration = longestSettled

\* C21: after drag-end no scratch burst source is live or still referenced by
\* a stem, currentTime is the clamped final pointer position, and isPlaying
\* is false.
C21_DragEndLeavesIdle ==
    lastOp.op = "scratchEnd" =>
        /\ \A n \in Stems : ~(hasSource(stems[n]) /\ stems[n].source.burst)
        /\ \A i \in 1..Len(orphans) : ~orphans[i].burst
        /\ currentTime = pointerToTime(lastOp.arg)
        /\ ~isPlaying

\* the burst sources of stem `name` that are heard: the one the stem holds
\* and those that lost their reference while sounding
liveBursts(name) ==
    (IF live(stems[name].source) /\ stems[name].source.burst THEN 1 ELSE 0)
      + Cardinality({i \in 1..Len(orphans) :
                        orphans[i].stem = name /\ orphans[i].burst})

\* C22: while scratching, the burst source of the previous move is torn down
\* before the next one is created, so that at most one burst source per stem
\* is ever live.
C22_OneBurstPerStem == \A n \in Stems : liveBursts(n) <= 1

\* the drag starts that take the transport over: mouse down while playing
ScratchTakeover == isPlaying /\ \E x \in Positions : ScratchBegin(x)

NextTakeover ==
    \/ Transport
    \/ ScratchTakeover
    \/ \E x \in Positions : ScratchMove(x)
    \/ \E x \in Positions : ScratchEnd(x)
    \/ ScratchTimer

SpecTakeover == Init /\ [][NextTakeover /\ BoundedLoop]_vars

\* a queued notification of a source that a stem holds
isHeld(e) == e.held

C24_EnvelopeLength ==
    \A n \in Stems :
        (decoded[n].kind = "buffer" /\ waveformData[n].computed) =>
            Len(waveformData[n].data) = Min(decoded[n].length, 2000)

\* C24 happens: the waveform data of a buffer longer than 2000 samples and
\* of one shorter than that have both been extracted.
C24_LongAndShortBuffer ==
    /\ lastOp.op = "loadDone"
    /\ decoded["vocals"].kind = "buffer" /\ decoded["vocals"].length = 4001
    /\ Len(waveformData["vocals"].data) = 2000
    /\ decoded["drums"].kind = "buffer" /\ decoded["drums"].length = 1999
    /\ Len(waveformData["drums"].data) = 1999

\* C25: on either engine a stem's waveform data is absent or has at most
\* 2000 values.
C25_EnvelopeAtMost2000 ==
    \A n \in Stems : waveformData[n].computed => Len(waveformData[n].data) <= 2000

noSolo(st) == \A m \in Stems : ~st[m].solo

\* C26: while a stem is muted and no stem is solo, setting its volume leaves
\* its gain at 0 and stores the volume; when it is then unmuted, its gain
\* becomes the volume set last, on its gain node if it has one and else on
\* the gain node the next play() creates.
C26_VolumeWhileMuted ==
    [][/\ lastOp'.op = "updateVolume" =>
            \E n \in Stems :
                /\ stems'[n].volume = lastOp'.arg
                /\ \A m \in Stems \ {n} : stems'[m] = stems[m]
       /\ \A n \in Stems :
            /\ (lastOp'.op = "updateVolume" /\ stems[n].muted /\ noSolo(stems))
                   => stems'[n].gain = 0
            /\ (/\ lastOp'.op = "toggleMute"
                /\ stems[n].muted /\ ~stems'[n].muted
                /\ noSolo(stems) /\ stems[n].gainNode)
                   => stems'[n].gain = stems[n].volume
            /\ (/\ lastOp'.op = "play"
                /\ ~stems[n].gainNode /\ stems'[n].gainNode
                /\ ~stems[n].muted /\ noSolo(stems))
                   => stems'[n].gain = stems[n].volume]_vars

\* C26 happens: the volume of the muted vocals stem, which has its gain node,
\* has been set to the full volume with no stem solo, and its gain is 0.
C26_VolumeSetOnMutedStem ==
    /\ lastOp = Op("updateVolume", MaxVolume)
    /\ noSolo(stems)
    /\ stems["vocals"].muted /\ stems["vocals"].gainNode
    /\ stems["vocals"].volume = MaxVolume /\ stems["vocals"].gain = 0
    /\ stems["drums"].volume = 0

\* TrackControls.toggleSolo on the stems st
toggleSolo(st, name) == updateSoloMuteStates([st EXCEPT ![name].solo = ~@])

\* toggleSolo for each stem of order in turn
RECURSIVE toggleSoloAll(_, _)
toggleSoloAll(st, order) ==
    IF order = <<>> THEN st
    ELSE toggleSoloAll(toggleSolo(st, Head(order)), Tail(order))

\* the ways to set solo on one or more stems
SoloOrders == {<<"vocals">>, <<"drums">>, <<"vocals", "drums">>, <<"drums", "vocals">>}

\* C27: from a state where no stem is solo, setting solo on one or more stems
\* and then clearing solo on all of them leaves every stem that has a gain
\* node with the gain muted ? 0 : volume, and every stem with the active flag
\* it had before.
C27_SoloRoundTrip ==
    noSolo(stems) =>
        \A set \in SoloOrders, clear \in SoloOrders :
            {set[i] : i \in DOMAIN set} = {clear[i] : i \in DOMAIN clear} =>
                LET after == toggleSoloAll(toggleSoloAll(stems, set), clear)
                IN  \A n \in Stems :
                        /\ after[n].gainNode =>
                              after[n].gain = IF stems[n].muted THEN 0 ELSE stems[n].volume
                        /\ after[n].active = stems[n].active

\* C28: isPlaying is true after a play() that had a stem to play, and false
\* after pause() or stop(), so that togglePlayback, which reads isPlaying,
\* alternates between play and pause.
C28_IsPlayingFollowsTransport ==
    /\ (lastOp.op = "play" /\ \E n \in Stems : stems[n].buffer) => isPlaying
    /\ lastOp.op \in {"pause", "stop"} => ~isPlaying

\* C29: when pause() has returned, isPlaying is false, no stem holds a
\* source, no render-loop callback is scheduled or named by the handle, and
\* currentTime is clock - startTime as read at the call if the engine was
\* playing, and unchanged if it was not.
C29_AfterPause ==
    [][lastOp'.op = "pause"
       => (/\ ~isPlaying'
           /\ \A n \in Stems : ~hasSource(stems'[n])
           /\ ~animationFrameId'
           /\ frames' = 0
           /\ currentTime' = IF isPlaying THEN clock - startTime ELSE currentTime)]_vars

\* C29 happens: pause() was called while sources were playing, after the
\* clock had moved on from the start of playback.
C29_PausedWhilePlaying ==
    /\ lastOp.op = "pause"
    /\ lastOp.arg > 0
    /\ ~isPlaying
    /\ currentTime = clock - startTime
    /\ currentTime > 0

\* C30: when stop() has returned, whatever the state it was called in,
\* isPlaying is false, currentTime is 0, no stem holds a source and no
\* render-loop callback is scheduled or named by the handle; the stop() that
\* the render loop makes at the end of the audio leaves the same transport
\* state.
C30_AfterStop ==
    /\ lastOp.op = "stop"
          => (/\ ~isPlaying
              /\ currentTime = 0
              /\ \A n \in Stems : ~hasSource(stems[n])
              /\ ~animationFrameId
              /\ frames = 0)
    /\ lastOp = Op("tick", 1)
          => (/\ ~isPlaying
              /\ currentTime = 0
              /\ \A n \in Stems : ~hasSource(stems[n]))

\* C30 happens: stop() was called while sources with their handlers were
\* playing at a position after the start.
C30_StoppedWhilePlaying ==
    /\ lastOp.op = "stop"
    /\ ~isPlaying
    /\ currentTime = 0
    /\ clock > startTime
    /\ \E i \in 1..Len(events) : ~events[i].held /\ events[i].src.tornBy = "stop"

\* C31: when play() has returned, every stem that was active with loaded
\* audio holds a source started once, at min(currentTime, its duration);
\* every other stem holds none; no source from before is left sounding,
\* held or not; and isPlaying is true.
C31_AfterPlay ==
    [][(lastOp'.op = "play" /\ ~playRefused)
       => (/\ isPlaying'
           /\ \A n \in Stems :
                IF stems[n].active /\ stems[n].buffer
                THEN /\ hasSource(stems'[n])
                     /\ stems'[n].source.starts = 1
                     /\ stems'[n].source.offset = Min(currentTime, Duration[n])
                     /\ ~stems'[n].source.burst
                ELSE ~hasSource(stems'[n])
           /\ orphans' = <<>>)]_vars

\* C32: the render loop is scheduled only while playing: whenever the session
\* is not playing (after pause(), stop(), a natural end or the terminal tick)
\* no render-loop callback is scheduled and the loop's handle is empty.
C32_LoopOnlyWhilePlaying == ~isPlaying => (frames = 0 /\ ~animationFrameId)

\* the track controls
ControlOps == {"toggleSolo", "toggleMute", "updateVolume", "updatePan"}

\* the stems that hold a source that is heard
liveStems(st) == {n \in Stems : live(st[n].source)}

\* C33: changing a stem's volume, pan, mute or solo leaves the transport as
\* it was: isPlaying, currentTime, maxDuration, the render loop's handle and
\* callbacks, the start time, every stem's source and with it the set of
\* stems that hold a live source, and the sources and notifications in flight.
C33_ControlsLeaveTransport ==
    [][lastOp'.op \in ControlOps
       => (/\ UNCHANGED <<isPlaying, currentTime, maxDuration, animationFrameId,
                          frames, startTime, orphans, events>>
           /\ liveStems(stems') = liveStems(stems)
           /\ \A n \in Stems : stems'[n].source = stems[n].source)]_vars

\* C33 happens: during playback, with the render loop scheduled and a source
\* sounding on vocals, the pan of vocals was set and has reached its pan node.
C33_PannedWhilePlaying ==
    /\ lastOp = Op("updatePan", MaxPan)
    /\ isPlaying /\ animationFrameId
    /\ live(stems["vocals"].source)
    /\ stems["vocals"].pan = MaxPan /\ stems["vocals"].panValue = MaxPan
    /\ stems["drums"].pan = 0

\* C34: a stem's active flag does not depend on its muted and solo flags:
\* toggling mute or solo never changes the active flag of any stem, and a
\* loaded stem that is muted, or silenced by another stem's solo, still gets
\* a source from the next play().
C34_ActiveIndependentOfMute ==
    [][/\ lastOp'.op \in {"toggleMute", "toggleSolo"}
          => \A n \in Stems : stems'[n].active = stems[n].active
       /\ (lastOp'.op = "play" /\ ~playRefused)
          => \A n \in Stems :
                (stems[n].buffer /\ (stems[n].muted \/ \E m \in Stems : stems[m].solo))
                    => hasSource(stems'[n])]_vars

\* C35: a seek made while playing sets a restart for the clamped position;
\* the restarts fire in the order of the seeks, and no step but a seek or a
\* restart changes what is pending; each restart leaves the engine playing at
\* its target, every active loaded stem holding one source started once at
\* min(target, its duration).  Restarts that are pending when the user's
\* operations are over all fire, so that playback ends up at the last seek.
C35_SeekRestartsPlayback ==
    /\ [][/\ (lastOp'.op = "seek" /\ isPlaying)
              => seekTimers' = Append(seekTimers, clamp(lastOp'.arg))
          /\ lastOp'.op \notin {"seek", "seekRestart"} => seekTimers' = seekTimers
          /\ lastOp'.op = "seekRestart"
              => (/\ lastOp'.arg = Head(seekTimers)
                  /\ seekTimers' = Tail(seekTimers)
                  /\ isPlaying'
                  /\ currentTime' = Head(seekTimers)
                  /\ startTime' = clock - Head(seekTimers)
                  /\ \A n \in Stems :
                       IF stems[n].active /\ stems[n].buffer
                       THEN /\ stems'[n].source.starts = 1
                            /\ stems'[n].source.offset = Min(Head(seekTimers), Duration[n])
                       ELSE ~hasSource(stems'[n]))]_vars
    /\ (seekTimers # <<>> /\ clock >= MaxClock)
          ~> (/\ seekTimers = <<>>
              /\ lastOp.op = "seekRestart"
              /\ isPlaying
              /\ currentTime = lastOp.arg)

\* C35 happens: after the last operation of the user, the restart of a seek to a place after the start has fired
\* with nothing else pending, and playback runs from there.
C35_RestartedAtTarget ==
    /\ lastOp.op = "seekRestart"
    /\ lastOp.arg > 0
    /\ clock >= MaxClock
    /\ seekTimers = <<>>
    /\ isPlaying
    /\ currentTime = lastOp.arg
    /\ \E n \in Stems : live(stems[n].source) /\ stems[n].source.offset = lastOp.arg


\* C36: when pause(), stop() or a drag start has ended playback during the
\* settle delay of a seek, the delayed restart that fires next does not resume
\* playback: isPlaying stays false and no stem gets a source.
C36_RestartYieldsToLaterCommand ==
    [][(/\ lastOp'.op = "seekRestart"
        /\ lastOp.op \in {"pause", "stop", "scratchBegin"}
        /\ ~isPlaying)
       => (/\ ~isPlaying'
           /\ \A n \in Stems : ~hasSource(stems'[n]))]_vars


\* the stop timers of scratch bursts of a stem that have not fired yet
pendingBurstTimers(name) ==
    Cardinality({i \in DOMAIN scratchTimers : scratchTimers[i] = name})

\* C37: the stop timer of a scratch burst stops the source of its own burst
\* alone: when it fires while its stem holds a source that play() started, or
\* the source of a later burst (a timer of that burst is still pending behind
\* it), that source is left as it is.
C37_BurstTimerStopsOwnSource ==
    [][(/\ lastOp'.op = "scratchTimer"
        /\ live(stems[Head(scratchTimers)].source)
        /\ \/ ~stems[Head(scratchTimers)].source.burst
           \/ pendingBurstTimers(Head(scratchTimers)) >= 2)
       => stems'[Head(scratchTimers)].source = stems[Head(scratchTimers)].source]_vars


\* C38: whenever the session is not playing and no scratch gesture is in
\* progress, no source is live: no stem holds one that sounds, and none that
\* a stem held before sounds on.
C38_NoLiveSourceWhileIdle ==
    (~isPlaying /\ ~isDragging /\ ~isScratchMode)
        => (/\ \A n \in Stems : ~live(stems[n].source)
            /\ \A i \in DOMAIN orphans : ~live(orphans[i]))


\* C39: in the compat engine the transport position follows playback: after
\* every tick of the update loop made while some media element is playing,
\* currentTime is the position of an element that is playing.
C39_TransportFollowsPlayback ==
    [][(/\ lastOp'.op = "tick"
        /\ \E n \in DOMAIN audioElements : ~audioElements[n].paused)
       => \E n \in DOMAIN audioElements :
             /\ ~audioElements[n].paused
             /\ currentTime' = audioElements[n].position]_vars


\* C40: for a buffer of L samples, with N = min(L, 2000) and B = floor(L / N),
\* value i of the waveform data is the sum of the absolute values of the B
\* samples from (i - 1) * B on, over B; the blocks lie inside the buffer, no
\* value reads a sample from N * B on, and equal buffers give equal data.
C40_EnvelopeIsBlockMean ==
    /\ \A n \in Stems :
         (decoded[n].kind = "buffer" /\ waveformData[n].computed) =>
            LET L == decoded[n].length
                N == Min(L, 2000)
                B == L \div N
            IN  /\ N * B <= L
                /\ Len(waveformData[n].data) = N
                /\ \A i \in 1..N :
                      LET total[k \in 0..B] ==
                              IF k = 0 THEN 0
                              ELSE total[k - 1]
                                   + abs(sample((i - 1) * B + k - 1, decoded[n].seed))
                      IN  /\ waveformData[n].data[i].sum = total[B]
                          /\ waveformData[n].data[i].over = B
    /\ \A n, m \in Stems :
         (/\ decoded[n] = decoded[m]
          /\ waveformData[n].computed
          /\ waveformData[m].computed) => waveformData[n] = waveformData[m]

\* C40 happens: the waveform data of a buffer of 4001 samples has been
\* extracted; its last value is the mean of samples 3998 and 3999, and the
\* sample after them is left out.
C40_LastBlockOfLongBuffer ==
    /\ lastOp.op = "loadDone"
    /\ decoded["vocals"] = bufferOf(MaxSamples, 1)
    /\ waveformData["vocals"].computed
    /\ waveformData["vocals"].data[2000] = [sum |-> 3, over |-> 2]
    /\ sample(4000, 1) # 0

====
